---- MODULE Spec2Model ----
(***************************************************************************)
(* House-price MLOps pipeline: the prediction adapter (bentoml/service.py), *)
(* the ETL script (scripts/etl_pipeline.py), the training driver           *)
(* (scripts/train_new_experiment.py) and the Airflow DAG                    *)
(* (dags/house_price_training_dag.py).                                      *)
(***************************************************************************)
EXTENDS Integers, Sequences, FiniteSets, TLC

VARIABLES
    \* ---- prediction adapter
    request,        \* the argument of the last predict call, as the caller built it
    callerInput,    \* the caller's object after the call returned
    artifact,       \* the loaded model artifact: the columns it was fitted on, and
                    \* how its inference function behaves for the call
    pstate,         \* "called" before predict has run on the request, "returned" after
    result,         \* what the call gave its caller: a returned dict or a raised fault
    modelFrame,     \* the frame handed to self.model.predict (<< >> when not invoked)
    invoked,        \* whether self.model.predict was invoked by the last call
    inference,      \* "not_run", "completed" or "raised": how that invocation ended
    healthResult,   \* the last return value of health()
    \* ---- ETL script and the files it works on
    rawFile,        \* data/raw/train.csv
    processed,      \* data/processed/{train,val,test}.csv and metadata.json
    clock,          \* the wall clock datetime.now() reads
    etlStatus,      \* how the last execution of run_etl ended ("idle" before any)
    etlRuns,        \* executions of run_etl so far
    lastSplit,      \* row labels of train_df, val_df, test_df in the last execution
    firstOut,       \* the output files as the first successful execution left them
    \* ---- training driver and the registry it talks to
    trainFiles,     \* data/processed as the training driver finds it
    experiments,    \* names of the experiments the registry holds
    artifactRoot,   \* the artifact location the registry gives runs of the experiment
    runs,           \* the registry's run records, by run name
    tpc,            \* position of main in MainProgram; Len + 1 once main is over
    texit,          \* "running", "exit0" (main returned) or "fatal" (unhandled exception)
    activeExperiment, \* the experiment set_experiment selected ("" before)
    loaded,         \* the columns of X_train as load_data returned them
    fitted,         \* per run name, whether model.fit was called
    artifact_uri,   \* the local variable artifact_uri
    failures,       \* registry calls that failed: <<call, kind, handled>>, oldest first
    abortedRuns,    \* names of the runs the artifact-URI check made main leave
    \* ---- Airflow DAG
    dagRuns,        \* DAG runs the scheduler has created so far
    ti,             \* task-instance state, per DAG run and task_id
    tries,          \* attempts started, per DAG run and task_id
    trainCsv        \* whether /opt/mlops/data/processed/train.csv exists

predictVars == <<request, callerInput, artifact, pstate, result, modelFrame, invoked, inference,
                 healthResult>>

etlVars == <<rawFile, processed, clock, etlStatus, etlRuns, lastSplit, firstOut>>

trainVars == <<trainFiles, experiments, artifactRoot, runs, tpc, texit, activeExperiment,
               loaded, fitted, artifact_uri, failures, abortedRuns>>

dagVars == <<dagRuns, ti, tries, trainCsv>>

vars == <<predictVars, etlVars, trainVars, dagVars>>

\* ------------------------------------------------------------------------
\* Bounds of the model
\* ------------------------------------------------------------------------
MaxSeed == 1        \* request values are drawn from MaxSeed + 1 valuations
MaxRows == 5        \* the raw file holds 0..MaxRows records
MaxClock == 2       \* the wall clock reads 0..MaxClock
MaxEtlRuns == 2     \* run_etl is executed at most this often
MaxDagRuns == 2     \* the scheduler creates at most this many DAG runs

\* ------------------------------------------------------------------------
\* Generic helpers
\* ------------------------------------------------------------------------
Range(s) == {s[i] : i \in 1..Len(s)}

Reverse(s) == [i \in 1..Len(s) |-> s[Len(s) + 1 - i]]

RECURSIVE Flatten(_)
Flatten(ss) == IF ss = << >> THEN << >> ELSE Head(ss) \o Flatten(Tail(ss))

\* ------------------------------------------------------------------------
\* Python dict, held as its insertion-ordered sequence of <<key, value>>
\* ------------------------------------------------------------------------
Keys(d) == [i \in 1..Len(d) |-> d[i][1]]

HasKey(d, k) == \E i \in 1..Len(d) : d[i][1] = k

DictGet(d, k) == d[CHOOSE i \in 1..Len(d) : d[i][1] = k][2]

\* d.pop(k): the value, and the dict without the key (other keys keep their order)
DictPop(d, k) == [value |-> DictGet(d, k), dict |-> SelectSeq(d, LAMBDA p : p[1] # k)]

\* d[k] = v: an existing key keeps its position, a new key goes last
DictSet(d, k, v) ==
    IF HasKey(d, k)
    THEN [i \in 1..Len(d) |-> IF d[i][1] = k THEN <<k, v>> ELSE d[i]]
    ELSE Append(d, <<k, v>>)

\* Cell values: a number, or a string where a number is expected
Num(n) == [t |-> "num", v |-> n]
Str == [t |-> "str", v |-> 0]

\* ------------------------------------------------------------------------
\* bentoml/service.py
\* ------------------------------------------------------------------------
EXPECTED_FEATURES_Reordered ==
    << "LotArea", "OverallQual", "OverallCond", "YearBuilt", "YearRemodAdd",
       "TotalBsmtSF", "1stFlrSF", "2ndFlrSF", "GrLivArea",
       "FullBath", "HalfBath", "BedroomAbvGr", "TotRmsAbvGrd",
       "Fireplaces", "GarageCars", "GarageArea", "WoodDeckSF",
       "OpenPorchSF", "PoolArea", "YrSold", "MoSold",
       "HouseAge", "RemodAge", "TotalBath", "TotalSF", "PricePerSqFt" >>

EXPECTED_FEATURES ==
    << "LotArea", "OverallQual", "OverallCond", "YearBuilt", "YearRemodAdd",
       "TotalBsmtSF", "1stFlrSF", "2ndFlrSF", "GrLivArea",
       "FullBath", "HalfBath", "BedroomAbvGr", "TotRmsAbvGrd",
       "Fireplaces", "GarageCars", "GarageArea", "WoodDeckSF",
       "OpenPorchSF", "PoolArea", "YrSold", "MoSold",
       "HouseAge", "RemodAge", "TotalSF", "TotalBath", "PricePerSqFt" >>

\* self.feature_names = EXPECTED_FEATURES
feature_names == EXPECTED_FEATURES

\* The legacy field names predict renames, in the order it renames them
Aliases == << <<"FirstFlrSF", "1stFlrSF">>, <<"SecondFlrSF", "2ndFlrSF">> >>

\* Python values a caller can pass: a dict, a list (has copy() but no keyed pop),
\* None (has no copy())
IsDict(x) == x.kind = "dict"

\* The two objects predict works with: the caller's and the one named `data`;
\* shared says whether both names denote one object.
\* data = input_data.copy(): a new object with the same items
InputCopy(x) == [caller |-> x, data |-> x, shared |-> FALSE]

\* a mutation of the object named data
Mutate(h, items) ==
    IF h.shared
    THEN [h EXCEPT !.data.items = items, !.caller.items = items]
    ELSE [h EXCEPT !.data.items = items]

\* `k in data`: key membership for a dict, element membership for a list
Contains(x, k) ==
    IF IsDict(x) THEN HasKey(x.items, k) ELSE \E i \in 1..Len(x.items) : x.items[i] = k

RenameOnlyFirst(h, a) ==
    IF a[1] = "FirstFlrSF" /\ Contains(h.data, a[1])
    THEN LET p == DictPop(h.data.items, a[1])
         IN  Mutate(h, DictSet(p.dict, a[2], p.value))
    ELSE h

\* if alias in data: data[canonical] = data.pop(alias)      (data is a dict)
Rename(h, a) ==
    IF Contains(h.data, a[1])
    THEN LET p == DictPop(h.data.items, a[1])
         IN  Mutate(h, DictSet(p.dict, a[2], p.value))
    ELSE h

\* pd.DataFrame([data]) of a dict: one row, the columns are the keys in
\* insertion order.  Of a list: one row, the columns are the positions 0..n-1,
\* none of which is a feature name (held here as "#i").
DataFrame(x) ==
    IF IsDict(x) THEN x.items
    ELSE [i \in 1..Len(x.items) |-> << "#" \o ToString(i - 1), Str >>]

MissingReversed(df) == Range(Keys(df)) \ Range(feature_names)

\* set(self.feature_names) - set(df.columns)
Missing(df) == Range(feature_names) \ Range(Keys(df))

\* df[self.feature_names]: the listed columns, in the listed order
Reorder(df) == [i \in 1..Len(feature_names) |-> <<feature_names[i], DictGet(df, feature_names[i])>>]

\* The artifact's inference function on the single row: it reads the row by
\* position, as a fitted regressor does.  A non-numeric cell makes it raise;
\* so does a failing artifact.  A degenerate artifact returns a non-number.
RECURSIVE WeightedSum(_, _)
WeightedSum(row, i) ==
    IF i > Len(row) THEN 0 ELSE i * row[i][2].v + WeightedSum(row, i + 1)

ModelPredict(frame, art) ==
    IF art.behaviour = "fails" THEN [raised |-> TRUE, exc |-> "MlflowException", out |-> Str]
    ELSE IF \E i \in 1..Len(frame) : frame[i][2].t # "num"
         THEN [raised |-> TRUE, exc |-> "ValueError", out |-> Str]
    ELSE IF art.behaviour = "nonnumeric" THEN [raised |-> FALSE, exc |-> "", out |-> Str]
    ELSE [raised |-> FALSE, exc |-> "", out |-> Num(WeightedSum(frame, 1))]

\* f"{n:,}" of a non-negative whole number: digits grouped in threes
Pad3(n) == IF n < 10 THEN "00" \o ToString(n)
           ELSE IF n < 100 THEN "0" \o ToString(n) ELSE ToString(n)

RECURSIVE Grouped(_)
Grouped(n) == IF n < 1000 THEN ToString(n)
              ELSE Grouped(n \div 1000) \o "," \o Pad3(n % 1000)

\* f"${p:,.2f}" of a whole number of dollars
FormatPrice(p) == IF p < 0 THEN "$-" \o Grouped(0 - p) \o ".00"
                  ELSE "$" \o Grouped(p) \o ".00"

\* The exception classes the steps of predict raise; all derive from Exception
ExceptionSubclasses == {"AttributeError", "TypeError", "ValueError", "KeyError", "MlflowException"}

CatchesOnlyKeyError(exc) == exc = "KeyError"

\* except Exception as e:
Catches(exc) == exc \in ExceptionSubclasses

\* how the try block ended: by a return or by an exception, with what it left behind
Returned(ret, h, frame, inf) ==
    [raised |-> FALSE, exc |-> "", ret |-> ret, caller |-> h.caller, frame |-> frame,
     invoked |-> inf # "not_run", inference |-> inf]

Raised(exc, h, frame, inf) ==
    [raised |-> TRUE, exc |-> exc, ret |-> [status |-> "none"], caller |-> h.caller,
     frame |-> frame, invoked |-> inf # "not_run", inference |-> inf]

\* The message of an error result.  "Missing: [...]" lists a Python set, whose
\* order is unspecified: the listed names are held as a set.
MissingMessage(names) == [text |-> "Missing: ", list |-> names]
ExcMessage(exc) == [text |-> exc, list |-> {}]

\* The body of the try block (lines 36-61): a return, or a raised exception
TryBody(x, art) ==
    IF x.kind = "none" THEN Raised("AttributeError", [caller |-> x], << >>, "not_run")
    ELSE
    LET h0 == InputCopy(x)
    IN  \* list.pop(str) raises TypeError
        IF ~IsDict(x) /\ \E i \in 1..Len(Aliases) : Contains(h0.data, Aliases[i][1])
        THEN Raised("TypeError", h0, << >>, "not_run")
        ELSE
        LET h1 == Rename(h0, Aliases[1])
            h2 == Rename(h1, Aliases[2])
            df == DataFrame(h2.data)
            missing == Missing(df)
        IN  IF missing # {}
            THEN Returned([status |-> "error", message |-> MissingMessage(missing)],
                          h2, << >>, "not_run")
            \* df[names] raises KeyError when a listed column is not in the frame
            ELSE IF ~(Range(feature_names) \subseteq Range(Keys(df)))
            THEN Raised("KeyError", h2, << >>, "not_run")
            ELSE
            LET frame == Reorder(df)
                p == ModelPredict(frame, art)
            IN  IF p.raised THEN Raised(p.exc, h2, frame, "raised")
                \* float(prediction[0]) of a non-number raises
                ELSE IF p.out.t # "num" THEN Raised("ValueError", h2, frame, "completed")
                ELSE Returned([predicted_price |-> p.out.v,
                               predicted_price_formatted |-> FormatPrice(p.out.v),
                               status |-> "success"], h2, frame, "completed")

\* HousingPredictor.predict: the try block and its handler
PredictCall(x, art) ==
    LET b == TryBody(x, art)
    IN  IF b.raised /\ Catches(b.exc)
        THEN [b EXCEPT !.raised = FALSE,
                       !.ret = [status |-> "error", message |-> ExcMessage(b.exc)]]
        ELSE b

\* ---- the requests the model draws
Droppable == {"1stFlrSF", "2ndFlrSF", "GarageCars"}

ValueOf(i, seed) == ((i * (seed + 2)) % 5) + seed

AliasOf(f) == IF f = "1stFlrSF" THEN "FirstFlrSF"
              ELSE IF f = "2ndFlrSF" THEN "SecondFlrSF" ELSE f

\* A dict request: the features but the dropped ones, the two floor areas under
\* their legacy names when asked, one cell a string when asked, an unknown
\* extra key when asked, in schema order or reversed
BuildRequest(dropped, alias1, alias2, bad, extra, rev, seed) ==
    LET pair(i) ==
            LET f == EXPECTED_FEATURES[i]
                k == IF (f = "1stFlrSF" /\ alias1) \/ (f = "2ndFlrSF" /\ alias2)
                     THEN AliasOf(f) ELSE f
                v == IF bad /\ f = "LotArea" THEN Str ELSE Num(ValueOf(i, seed))
            IN  IF f \in dropped THEN << >> ELSE << <<k, v>> >>
        items == Flatten([i \in 1..Len(EXPECTED_FEATURES) |-> pair(i)])
        more == IF extra THEN Append(items, <<"Id", Num(1)>>) ELSE items
    IN  [kind |-> "dict", items |-> IF rev THEN Reverse(more) ELSE more]

DictRequests ==
    { BuildRequest(d, a1, a2, bad, extra, rev, seed) :
        d \in SUBSET Droppable, a1 \in BOOLEAN, a2 \in BOOLEAN, bad \in BOOLEAN,
        extra \in BOOLEAN, rev \in BOOLEAN, seed \in 0..MaxSeed }

OtherRequests ==
    { [kind |-> "none", items |-> << >>],
      [kind |-> "list", items |-> << >>],
      [kind |-> "list", items |-> <<"LotArea">>],
      [kind |-> "list", items |-> <<"LotArea", "FirstFlrSF">>] }

Requests == DictRequests \cup OtherRequests

NoArtifact == [behaviour |-> "ok", columns |-> << >>]

NoResult == [raised |-> FALSE, exc |-> "", ret |-> [status |-> "none"]]


\* ------------------------------------------------------------------------
\* Exact numbers for data-frame cells: n/d with d >= 0, in lowest terms.
\* 0/0 is NaN (a missing value) and 1/0 is inf, as in floating point.
\* ------------------------------------------------------------------------
RECURSIVE Gcd(_, _)
Gcd(a, b) == IF b = 0 THEN a ELSE Gcd(b, a % b)

Abs(a) == IF a < 0 THEN 0 - a ELSE a

Rat(n, d) ==
    IF d = 0 THEN [n |-> IF n > 0 THEN 1 ELSE IF n < 0 THEN 0 - 1 ELSE 0, d |-> 0]
    ELSE LET g == Gcd(Abs(n), Abs(d))
             sg == IF d < 0 THEN 0 - 1 ELSE 1
         IN  [n |-> sg * (n \div g), d |-> sg * (d \div g)]

Whole(n) == [n |-> n, d |-> 1]
NaN == [n |-> 0, d |-> 0]
IsNaN(x) == x.n = 0 /\ x.d = 0

RAdd(x, y) == IF x.d = 0 \/ y.d = 0
              THEN (IF IsNaN(x) \/ IsNaN(y) \/ (x.d = 0 /\ y.d = 0 /\ x.n # y.n) THEN NaN
                    ELSE IF x.d = 0 THEN x ELSE y)
              ELSE Rat(x.n * y.d + y.n * x.d, x.d * y.d)
RNeg(x) == [n |-> 0 - x.n, d |-> x.d]
RSub(x, y) == RAdd(x, RNeg(y))
RHalf(x) == IF x.d = 0 THEN x ELSE Rat(x.n, 2 * x.d)
RDiv(x, y) == IF IsNaN(x) \/ IsNaN(y) \/ (x.d = 0 /\ y.d = 0) THEN NaN
              ELSE IF y.d = 0 THEN Whole(0)
              ELSE IF x.d = 0 THEN Rat(x.n * (IF y.n < 0 THEN 0 - 1 ELSE 1), 0)
              ELSE Rat(x.n * y.d, x.d * y.n)
\* x <= y, for finite x and y
RLeq(x, y) == x.n * y.d <= y.n * x.d

\* the finite sequence s sorted ascending (insertion sort)
RECURSIVE Insert(_, _)
Insert(x, s) == IF s = << >> THEN <<x>>
                ELSE IF RLeq(x, Head(s)) THEN <<x>> \o s
                ELSE <<Head(s)>> \o Insert(x, Tail(s))

RECURSIVE Sorted(_)
Sorted(s) == IF s = << >> THEN << >> ELSE Insert(Head(s), Sorted(Tail(s)))

RECURSIVE RSum(_)
RSum(s) == IF s = << >> THEN Whole(0) ELSE RAdd(Head(s), RSum(Tail(s)))

\* Series.median(): missing values are skipped; NaN when nothing is left
Median(s) ==
    LET v == Sorted(SelectSeq(s, LAMBDA x : ~IsNaN(x)))
        k == Len(v)
    IN  IF k = 0 THEN NaN
        ELSE IF k % 2 = 1 THEN v[(k + 1) \div 2]
        ELSE RHalf(RAdd(v[k \div 2], v[k \div 2 + 1]))

\* Series.mean(), min(), max() of a column without missing values
Mean(s) == IF s = << >> THEN NaN ELSE RDiv(RSum(s), Whole(Len(s)))
Min(s) == IF s = << >> THEN NaN ELSE Sorted(s)[1]
Max(s) == IF s = << >> THEN NaN ELSE Sorted(s)[Len(s)]

\* ------------------------------------------------------------------------
\* Data frames: column names in order, and the rows; a row has its index
\* label and a cell for every column.  A CSV file holds the same without the
\* labels (to_csv(index=False)).
\* ------------------------------------------------------------------------
Column(df, c) == [i \in 1..Len(df.rows) |-> df.rows[i].cells[c]]

\* df[name] = series: a new column goes last, an existing one is replaced in place
Assign(df, name, series) ==
    [cols |-> IF name \in Range(df.cols) THEN df.cols ELSE Append(df.cols, name),
     rows |-> [i \in 1..Len(df.rows) |->
                 [df.rows[i] EXCEPT !.cells =
                     [c \in DOMAIN df.rows[i].cells \cup {name} |->
                         IF c = name THEN series[i] ELSE df.rows[i].cells[c]]]]]

\* df[names]: exactly the listed columns, in the listed order
Select(df, names) ==
    [cols |-> names,
     rows |-> [i \in 1..Len(df.rows) |->
                 [df.rows[i] EXCEPT !.cells = [c \in Range(names) |-> df.rows[i].cells[c]]]]]

\* df.drop(name, axis=1)
Drop(df, name) == Select(df, SelectSeq(df.cols, LAMBDA c : c # name))

\* df.iloc[positions]
Take(df, positions) ==
    [cols |-> df.cols, rows |-> [i \in 1..Len(positions) |-> df.rows[positions[i]]]]

Labels(df) == [i \in 1..Len(df.rows) |-> df.rows[i].label]

\* df.to_csv(path, index=False): the file is replaced by the header and the rows
ToCsv(df) == [exists |-> TRUE, cols |-> df.cols,
              rows |-> [i \in 1..Len(df.rows) |-> df.rows[i].cells]]

\* pd.read_csv(path): the rows get the labels 0..n-1
ReadCsv(f) == [cols |-> f.cols,
               rows |-> [i \in 1..Len(f.rows) |-> [label |-> i - 1, cells |-> f.rows[i]]]]

NoFile == [exists |-> FALSE, cols |-> << >>, rows |-> << >>]

\* ------------------------------------------------------------------------
\* sklearn.model_selection.train_test_split(df, test_size=t, random_state=seed)
\* ------------------------------------------------------------------------
\* RandomState(seed).permutation(n): a permutation of 1..n fixed by seed and n.
\* A linear congruential generator driving a Fisher-Yates shuffle stands for
\* the library's generator.
LcgNext(s) == (s * 75 + 74) % 65537

RECURSIVE Shuffle(_, _, _)
Shuffle(p, i, s) ==
    IF i <= 1 THEN p
    ELSE LET s1 == LcgNext(s)
             j == (s1 % i) + 1
         IN  Shuffle([p EXCEPT ![i] = p[j], ![j] = p[i]], i - 1, s1)

Permutation(n, seed) == Shuffle([i \in 1..n |-> i], n, seed)

\* ceil(t * n) for the fraction t = num/den.  (In floating point 0.2 * n and
\* 0.25 * n round to the exact product whenever that is whole, so the float
\* ceiling is this one.)
CeilFraction(t, n) == (t.num * n + t.den - 1) \div t.den

SplitSizesFloor(t, n) ==
    LET n_test == (t.num * n) \div t.den
    IN  [n_test |-> n_test, n_train |-> n - n_test]

\* _validate_shuffle_split with train_size=None
SplitSizes(t, n) ==
    LET n_test == CeilFraction(t, n)
    IN  [n_test |-> n_test, n_train |-> n - n_test]

\* ValueError when the data is empty or the train part would be
train_test_split(df, t, seed) ==
    LET n == Len(df.rows)
        z == SplitSizes(t, n)
        perm == Permutation(n, seed)
    IN  IF n = 0 \/ z.n_train = 0
        THEN [raised |-> TRUE, train |-> df, test |-> df]
        ELSE [raised |-> FALSE,
              test  |-> Take(df, SubSeq(perm, 1, z.n_test)),
              train |-> Take(df, SubSeq(perm, z.n_test + 1, z.n_test + z.n_train))]

\* ------------------------------------------------------------------------
\* scripts/etl_pipeline.py
\* ------------------------------------------------------------------------
selected_features ==
    << "LotArea", "OverallQual", "OverallCond", "YearBuilt", "YearRemodAdd",
       "TotalBsmtSF", "1stFlrSF", "2ndFlrSF", "GrLivArea",
       "FullBath", "HalfBath", "BedroomAbvGr", "TotRmsAbvGrd",
       "Fireplaces", "GarageCars", "GarageArea", "WoodDeckSF",
       "OpenPorchSF", "PoolArea", "YrSold", "MoSold" >>

Target == "SalePrice"

random_state == 42
TestSize == [num |-> 1, den |-> 5]      \* test_size=0.2
ValSize == [num |-> 1, den |-> 4]       \* test_size=0.25

SelectAll(df) == df

\* df[selected_features + ['SalePrice']].copy()
SelectFeatures(df) == Select(df, Append(selected_features, Target))

\* for col in df_selected.columns: fill the missing cells with the median
FillMissing(df) ==
    [cols |-> df.cols,
     rows |-> [i \in 1..Len(df.rows) |->
                 [df.rows[i] EXCEPT !.cells =
                     [c \in DOMAIN df.rows[i].cells |->
                         IF IsNaN(df.rows[i].cells[c]) THEN Median(Column(df, c))
                         ELSE df.rows[i].cells[c]]]]]

\* the five derived columns, in the order the script adds them; each is
\* computed from selected raw columns only, which no assignment changes
FeatureEngineering(df) ==
    LET Each(F(_)) == [i \in 1..Len(df.rows) |-> F(df.rows[i].cells)]
        d1 == Assign(df, "HouseAge", Each(LAMBDA r : RSub(r["YrSold"], r["YearBuilt"])))
        d2 == Assign(d1, "RemodAge", Each(LAMBDA r : RSub(r["YrSold"], r["YearRemodAdd"])))
        d3 == Assign(d2, "TotalSF",
                     Each(LAMBDA r : RAdd(RAdd(r["TotalBsmtSF"], r["1stFlrSF"]), r["2ndFlrSF"])))
        d4 == Assign(d3, "TotalBath", Each(LAMBDA r : RAdd(r["FullBath"], RHalf(r["HalfBath"]))))
        d5 == Assign(d4, "PricePerSqFt", Each(LAMBDA r : RDiv(r[Target], r["GrLivArea"])))
    IN  d5

TimeSeed(now) == now

\* random_state=42 in both splits, whatever the time
SplitSeed(now) == random_state

\* datetime.now().isoformat()
IsoFormat(now) == "2026-01-07T00:00:0" \o ToString(now)

Metadata(df, train, val, test, now) ==
    [exists |-> TRUE,
     timestamp |-> IsoFormat(now),
     total_records |-> Len(df.rows),
     train_records |-> Len(train.rows),
     val_records |-> Len(val.rows),
     test_records |-> Len(test.rows),
     features |-> SelectSeq(df.cols, LAMBDA c : c # Target),
     target |-> Target,
     price_stats |-> [mean |-> Mean(Column(df, Target)), median |-> Median(Column(df, Target)),
                      min |-> Min(Column(df, Target)), max |-> Max(Column(df, Target))]]

NoMetadata == [exists |-> FALSE]

\* run_etl on the raw file at wall-clock time now: the exception it dies of, or
\* the frames and the four files it writes.  Every failure precedes the first write.
EtlRun(raw, now) ==
    IF ~raw.exists THEN [status |-> "FileNotFoundError"]
    ELSE IF ~(Range(selected_features) \cup {Target} \subseteq Range(raw.cols))
    THEN [status |-> "KeyError"]
    ELSE
    LET df_selected == FeatureEngineering(FillMissing(SelectFeatures(ReadCsv(raw))))
        s1 == train_test_split(df_selected, TestSize, SplitSeed(now))
    IN  IF s1.raised THEN [status |-> "ValueError"]
        ELSE
        LET s2 == train_test_split(s1.train, ValSize, SplitSeed(now))
        IN  IF s2.raised THEN [status |-> "ValueError"]
            ELSE [status |-> "ok",
                  split |-> [train |-> Labels(s2.train), val |-> Labels(s2.test),
                             test |-> Labels(s1.test)],
                  files |-> [train |-> ToCsv(s2.train), val |-> ToCsv(s2.test),
                             test |-> ToCsv(s1.test),
                             metadata |-> Metadata(df_selected, s2.train, s2.test, s1.test, now)]]

\* ---- the raw files the model draws
\* The raw extract has columns the script does not select, and lists MoSold
\* before YrSold.
RawColumns ==
    << "Id", "MSSubClass", "LotFrontage",
       "LotArea", "OverallQual", "OverallCond", "YearBuilt", "YearRemodAdd",
       "TotalBsmtSF", "1stFlrSF", "2ndFlrSF", "GrLivArea",
       "FullBath", "HalfBath", "BedroomAbvGr", "TotRmsAbvGrd",
       "Fireplaces", "GarageCars", "GarageArea", "WoodDeckSF",
       "OpenPorchSF", "PoolArea", "MoSold", "YrSold", "SalePrice" >>

RawCell(c, r, withNaN) ==
    IF withNaN /\ r = 1 /\ RawColumns[c] \in {"LotFrontage", "GarageCars", "SalePrice"} THEN NaN
    ELSE Whole(((c * 3 + r * 5) % 7) + 1)

RawFile(n, cols, withNaN) ==
    [exists |-> TRUE, cols |-> cols,
     rows |-> [r \in 1..n |->
                 [c \in Range(cols) |->
                     RawCell(CHOOSE i \in 1..Len(RawColumns) : RawColumns[i] = c, r, withNaN)]]]

RawFiles ==
    {NoFile}
    \cup {RawFile(n, RawColumns, w) : n \in 0..MaxRows, w \in BOOLEAN}
    \cup {RawFile(n, SelectSeq(RawColumns, LAMBDA c : c # Target), FALSE) : n \in {MaxRows}}

\* what an earlier extract may have left in data/processed
StaleCsv == [exists |-> TRUE, cols |-> <<"Id", Target>>,
             rows |-> << [c \in {"Id", Target} |-> Whole(1)],
                         [c \in {"Id", Target} |-> Whole(2)] >>]

NoProcessed == [train |-> NoFile, val |-> NoFile, test |-> NoFile, metadata |-> NoMetadata]

StaleProcessed == [train |-> StaleCsv, val |-> StaleCsv, test |-> StaleCsv,
                   metadata |-> NoMetadata]

NoSplit == [train |-> << >>, val |-> << >>, test |-> << >>]

EtlIdle ==
    /\ rawFile = NoFile
    /\ processed = NoProcessed
    /\ clock = 0
    /\ etlStatus = "idle"
    /\ etlRuns = 0
    /\ lastSplit = NoSplit
    /\ firstOut = NoProcessed

InitEtl ==
    /\ rawFile \in RawFiles
    /\ processed \in {NoProcessed, StaleProcessed}
    /\ clock = 0
    /\ etlStatus = "idle"
    /\ etlRuns = 0
    /\ lastSplit = NoSplit
    /\ firstOut = NoProcessed

\* One execution of scripts/etl_pipeline.py
RunEtl ==
    /\ etlRuns < MaxEtlRuns
    /\ LET o == EtlRun(rawFile, clock)
       IN  /\ etlStatus' = o.status
           /\ etlRuns' = etlRuns + 1
           /\ processed' = IF o.status = "ok" THEN o.files ELSE processed
           /\ lastSplit' = IF o.status = "ok" THEN o.split ELSE NoSplit
           /\ firstOut' = IF o.status = "ok" /\ ~firstOut.metadata.exists
                          THEN o.files ELSE firstOut
    /\ UNCHANGED <<rawFile, clock>>
    /\ UNCHANGED <<predictVars, trainVars, dagVars>>

\* Time passes
Tick ==
    /\ clock < MaxClock
    /\ clock' = clock + 1
    /\ UNCHANGED <<rawFile, processed, etlStatus, etlRuns, lastSplit, firstOut>>
    /\ UNCHANGED <<predictVars, trainVars, dagVars>>

\* ------------------------------------------------------------------------
\* scripts/train_new_experiment.py
\* ------------------------------------------------------------------------
\* str.startswith, on strings held as sequences of characters
StartsWith(str, prefix) ==
    Len(prefix) <= Len(str) /\ SubSeq(str, 1, Len(prefix)) = prefix

ExpectedScheme == << "m", "l", "f", "l", "o", "w", "-", "a", "r", "t", "i", "f", "a", "c", "t", "s", ":", "/" >>

ExperimentName == "house-price-mlflow-artifacts"

BaselineRun == "linear_regression_baseline"
AdvancedRun == "gradient_boosting"

\* load_data: the three files read, the target split off each
load_data(files) ==
    IF ~(files.train.exists /\ files.val.exists /\ files.test.exists)
    THEN [raised |-> TRUE, exc |-> "FileNotFoundError"]
    ELSE IF \E f \in {files.train, files.val, files.test} : Target \notin Range(f.cols)
    THEN [raised |-> TRUE, exc |-> "KeyError"]
    ELSE [raised |-> FALSE, exc |-> "",
          X_train |-> Drop(ReadCsv(files.train), Target),
          X_val |-> Drop(ReadCsv(files.val), Target),
          X_test |-> Drop(ReadCsv(files.test), Target)]

\* evaluate_model(model, X, y, dataset_name): the names of the metrics it returns
evaluate_model(dataset_name) ==
    {dataset_name \o "_rmse", dataset_name \o "_mae", dataset_name \o "_r2",
     dataset_name \o "_mape"}

\* params of the gradient boosting run
params == {"n_estimators", "learning_rate", "max_depth", "min_samples_split",
           "min_samples_leaf", "random_state"}

\* The statements of main that act on the registry, the files or the models,
\* in program order.  Statements 4-11 are the body of the first `with`
\* (Run A), 12-19 the body of the second (Run B).
MainProgram ==
    << [op |-> "create_experiment", run |-> ""],
       [op |-> "set_experiment",    run |-> ""],
       [op |-> "load_data",         run |-> ""],
       [op |-> "start_run",         run |-> BaselineRun],
       [op |-> "get_artifact_uri",  run |-> BaselineRun],
       [op |-> "check_artifact_uri", run |-> BaselineRun],
       [op |-> "fit",               run |-> BaselineRun],
       [op |-> "log_param",         run |-> BaselineRun],
       [op |-> "log_metrics",       run |-> BaselineRun],
       [op |-> "log_model",         run |-> BaselineRun],
       [op |-> "end_run",           run |-> BaselineRun],
       [op |-> "start_run",         run |-> AdvancedRun],
       [op |-> "get_artifact_uri",  run |-> AdvancedRun],
       [op |-> "fit",               run |-> AdvancedRun],
       [op |-> "log_param",         run |-> AdvancedRun],
       [op |-> "log_params",        run |-> AdvancedRun],
       [op |-> "log_metrics",       run |-> AdvancedRun],
       [op |-> "log_model",         run |-> AdvancedRun],
       [op |-> "end_run",           run |-> AdvancedRun],
       [op |-> "finish",            run |-> ""] >>

Done == Len(MainProgram) + 1

At(op) == texit = "running" /\ tpc \in 1..Len(MainProgram) /\ MainProgram[tpc].op = op

Stmt == MainProgram[tpc]

\* a registry call answers, or the registry cannot be reached
CallOutcomes == {"ok", "comm_failure"}

NoRun == [status |-> "none", params |-> {}, metrics |-> {}, artifacts |-> {}]

\* ActiveRun.__exit__ when an exception leaves the `with` body: end_run("FAILED"),
\* itself a registry call, so the record ends FAILED or stays RUNNING
RunsAfterException(st) ==
    IF tpc \in 1..Len(MainProgram) /\ Stmt.run # "" /\ runs[Stmt.run].status = "RUNNING"
    THEN [runs EXCEPT ![Stmt.run].status = st]
    ELSE runs

\* An exception nothing in main handles: the process dies where it is
Fatal(call, kind) ==
    /\ texit' = "fatal"
    /\ failures' = Append(failures, <<call, kind, FALSE>>)
    /\ UNCHANGED tpc

\* the outcome of a registry call the code wraps in nothing
Unhandled(call) ==
    /\ \E st \in {"FAILED", "RUNNING"} : runs' = RunsAfterException(st)
    /\ Fatal(call, "comm_failure")
    /\ UNCHANGED <<trainFiles, experiments, artifactRoot, activeExperiment, loaded, fitted,
                   artifact_uri, abortedRuns>>

Advance == tpc' = tpc + 1 /\ UNCHANGED <<texit, failures>>

\* try: create_experiment(...)  except: print(...)      a bare except
CreateHandles(kind) == TRUE

\* mlflow.create_experiment("house-price-mlflow-artifacts")
CreateExperiment ==
    /\ At("create_experiment")
    /\ \E o \in CallOutcomes :
         LET kind == IF o = "comm_failure" THEN o
                     ELSE IF ExperimentName \in experiments THEN "already_exists" ELSE "ok"
         IN  /\ experiments' = IF kind = "ok" THEN experiments \cup {ExperimentName}
                               ELSE experiments
             /\ IF kind = "ok"
                THEN Advance
                ELSE IF CreateHandles(kind)
                THEN /\ tpc' = tpc + 1
                     /\ failures' = Append(failures, <<"create_experiment", kind, TRUE>>)
                     /\ UNCHANGED texit
                ELSE Fatal("create_experiment", kind)
    /\ UNCHANGED <<trainFiles, artifactRoot, runs, activeExperiment, loaded, fitted, artifact_uri, abortedRuns>>
    /\ UNCHANGED <<predictVars, etlVars, dagVars>>

\* mlflow.set_experiment(...): selects the experiment, creating it when absent
SetExperiment ==
    /\ At("set_experiment")
    /\ \E o \in CallOutcomes :
         IF o = "ok"
         THEN /\ experiments' = experiments \cup {ExperimentName}
              /\ activeExperiment' = ExperimentName
              /\ Advance
              /\ UNCHANGED <<trainFiles, artifactRoot, runs, loaded, fitted, artifact_uri, abortedRuns>>
         ELSE Unhandled("set_experiment")
    /\ UNCHANGED <<predictVars, etlVars, dagVars>>

\* X_train, y_train, X_val, y_val, X_test, y_test = load_data()
LoadData ==
    /\ At("load_data")
    /\ LET d == load_data(trainFiles)
       IN  IF d.raised
           THEN /\ texit' = "fatal"
                /\ UNCHANGED <<tpc, failures, loaded>>
           ELSE /\ loaded' = d.X_train.cols
                /\ Advance
    /\ UNCHANGED <<trainFiles, experiments, artifactRoot, runs, activeExperiment, fitted,
                   artifact_uri, abortedRuns>>
    /\ UNCHANGED <<predictVars, etlVars, dagVars>>

\* with mlflow.start_run(run_name=...):
StartRun ==
    /\ At("start_run")
    /\ \E o \in CallOutcomes :
         IF o = "ok"
         THEN /\ runs' = [runs EXCEPT ![Stmt.run] = [NoRun EXCEPT !.status = "RUNNING"]]
              /\ Advance
              /\ UNCHANGED <<trainFiles, experiments, artifactRoot, activeExperiment, loaded,
                             fitted, artifact_uri, abortedRuns>>
         ELSE Unhandled("start_run")
    /\ UNCHANGED <<predictVars, etlVars, dagVars>>

\* artifact_uri = mlflow.get_artifact_uri()
GetArtifactUri ==
    /\ At("get_artifact_uri")
    /\ \E o \in CallOutcomes :
         IF o = "ok"
         THEN /\ artifact_uri' = artifactRoot
              /\ Advance
              /\ UNCHANGED <<trainFiles, experiments, artifactRoot, runs, activeExperiment,
                             loaded, fitted, abortedRuns>>
         ELSE Unhandled("get_artifact_uri")
    /\ UNCHANGED <<predictVars, etlVars, dagVars>>

LeaveRunOnly(pc) == pc + 6

\* `return` inside the first `with`: main is over
OnUriMismatch(pc) == Done

\* if not artifact_uri.startswith("mlflow-artifacts:/"): ... return
\* Leaving the `with` by return ends the run FINISHED; that registry call can fail.
CheckArtifactUri ==
    /\ At("check_artifact_uri")
    /\ IF StartsWith(artifact_uri, ExpectedScheme)
       THEN /\ Advance
            /\ UNCHANGED <<runs, abortedRuns>>
       ELSE /\ abortedRuns' = abortedRuns \cup {Stmt.run}
            /\ \E o \in CallOutcomes :
                 IF o = "ok"
                 THEN /\ runs' = [runs EXCEPT ![Stmt.run].status = "FINISHED"]
                      /\ tpc' = OnUriMismatch(tpc)
                      /\ texit' = IF OnUriMismatch(tpc) = Done THEN "exit0" ELSE texit
                      /\ UNCHANGED failures
                 ELSE /\ UNCHANGED runs
                      /\ Fatal("end_run", "comm_failure")
    /\ UNCHANGED <<trainFiles, experiments, artifactRoot, activeExperiment, loaded, fitted,
                   artifact_uri>>
    /\ UNCHANGED <<predictVars, etlVars, dagVars>>

\* model = ...; model.fit(X_train, y_train)
Fit ==
    /\ At("fit")
    /\ fitted' = [fitted EXCEPT ![Stmt.run] = TRUE]
    /\ Advance
    /\ UNCHANGED <<trainFiles, experiments, artifactRoot, runs, activeExperiment, loaded,
                   artifact_uri, abortedRuns>>
    /\ UNCHANGED <<predictVars, etlVars, dagVars>>

\* mlflow.log_param("model_type", ...)
LogParam ==
    /\ At("log_param")
    /\ \E o \in CallOutcomes :
         IF o = "ok"
         THEN /\ runs' = [runs EXCEPT ![Stmt.run].params = @ \cup {"model_type"}]
              /\ Advance
              /\ UNCHANGED <<trainFiles, experiments, artifactRoot, activeExperiment, loaded,
                             fitted, artifact_uri, abortedRuns>>
         ELSE Unhandled("log_param")
    /\ UNCHANGED <<predictVars, etlVars, dagVars>>

\* mlflow.log_params(params)
LogParams ==
    /\ At("log_params")
    /\ \E o \in CallOutcomes :
         IF o = "ok"
         THEN /\ runs' = [runs EXCEPT ![Stmt.run].params = @ \cup params]
              /\ Advance
              /\ UNCHANGED <<trainFiles, experiments, artifactRoot, activeExperiment, loaded,
                             fitted, artifact_uri, abortedRuns>>
         ELSE Unhandled("log_params")
    /\ UNCHANGED <<predictVars, etlVars, dagVars>>

\* the evaluate_model calls and mlflow.log_metrics({...}): train and val for the
\* baseline, train, val and test for gradient boosting
LogMetrics ==
    /\ At("log_metrics")
    /\ \E o \in CallOutcomes :
         IF o = "ok"
         THEN /\ runs' = [runs EXCEPT ![Stmt.run].metrics =
                            IF Stmt.run = BaselineRun
                            THEN evaluate_model("train") \cup evaluate_model("val")
                            ELSE evaluate_model("train") \cup evaluate_model("val")
                                 \cup evaluate_model("test")]
              /\ Advance
              /\ UNCHANGED <<trainFiles, experiments, artifactRoot, activeExperiment, loaded,
                             fitted, artifact_uri, abortedRuns>>
         ELSE Unhandled("log_metrics")
    /\ UNCHANGED <<predictVars, etlVars, dagVars>>

\* mlflow.sklearn.log_model(model, "model")
LogModel ==
    /\ At("log_model")
    /\ \E o \in CallOutcomes :
         IF o = "ok"
         THEN /\ runs' = [runs EXCEPT ![Stmt.run].artifacts = @ \cup {"model"}]
              /\ Advance
              /\ UNCHANGED <<trainFiles, experiments, artifactRoot, activeExperiment, loaded,
                             fitted, artifact_uri, abortedRuns>>
         ELSE Unhandled("log_model")
    /\ UNCHANGED <<predictVars, etlVars, dagVars>>

\* the end of a `with` body reached normally: end_run("FINISHED")
EndRun ==
    /\ At("end_run")
    /\ \E o \in CallOutcomes :
         IF o = "ok"
         THEN /\ runs' = [runs EXCEPT ![Stmt.run].status = "FINISHED"]
              /\ Advance
         ELSE /\ UNCHANGED runs
              /\ Fatal("end_run", "comm_failure")
    /\ UNCHANGED <<trainFiles, experiments, artifactRoot, activeExperiment, loaded, fitted,
                   artifact_uri, abortedRuns>>
    /\ UNCHANGED <<predictVars, etlVars, dagVars>>

\* the closing prints; main returns
Finish ==
    /\ At("finish")
    /\ tpc' = Done
    /\ texit' = "exit0"
    /\ UNCHANGED <<trainFiles, experiments, artifactRoot, runs, activeExperiment, loaded,
                   fitted, artifact_uri, failures, abortedRuns>>
    /\ UNCHANGED <<predictVars, etlVars, dagVars>>

\* ---- what the model draws for the training driver
\* artifact locations a tracking server can be configured with
ArtifactRoots ==
    { << "m", "l", "f", "l", "o", "w", "-", "a", "r", "t", "i", "f", "a", "c", "t", "s", ":", "/", "1" >>,
      << "f", "i", "l", "e", ":", "/", "/", "/", "m", "l", "r", "u", "n", "s", "/", "1" >>,
      << "m", "l", "f", "l", "o", "w", "-", "a", "r", "t", "i", "f", "a", "c", "t", "s" >> }

\* data/processed as a successful ETL run left it
EtlOutputs ==
    {EtlRun(r, 0).files : r \in {f \in RawFiles : EtlRun(f, 0).status = "ok"}}

TrainIdle ==
    /\ trainFiles = NoProcessed
    /\ experiments = {}
    /\ artifactRoot = << >>
    /\ runs = [r \in {BaselineRun, AdvancedRun} |-> NoRun]
    /\ tpc = Done
    /\ texit = "exit0"
    /\ activeExperiment = ""
    /\ loaded = << >>
    /\ fitted = [r \in {BaselineRun, AdvancedRun} |-> FALSE]
    /\ artifact_uri = << >>
    /\ failures = << >>
    /\ abortedRuns = {}

InitTrain ==
    /\ trainFiles \in {NoProcessed, StaleProcessed} \cup EtlOutputs
    /\ experiments \in {{}, {ExperimentName}}
    /\ artifactRoot \in ArtifactRoots
    /\ runs = [r \in {BaselineRun, AdvancedRun} |-> NoRun]
    /\ tpc = 1
    /\ texit = "running"
    /\ activeExperiment = ""
    /\ loaded = << >>
    /\ fitted = [r \in {BaselineRun, AdvancedRun} |-> FALSE]
    /\ artifact_uri = << >>
    /\ failures = << >>
    /\ abortedRuns = {}


\* ------------------------------------------------------------------------
\* bentoml/service.py: the service and the calls it serves
\* ------------------------------------------------------------------------
\* The artifact the service loads was fitted by the training driver on the
\* X_train that load_data made of the files run_etl wrote.
Artifacts ==
    [behaviour : {"ok", "fails", "nonnumeric"},
     columns : {load_data(f).X_train.cols : f \in EtlOutputs}]

InitPredict ==
    /\ request \in Requests
    /\ artifact \in Artifacts
    /\ callerInput = request
    /\ pstate = "called"
    /\ result = NoResult
    /\ modelFrame = << >>
    /\ invoked = FALSE
    /\ inference = "not_run"
    /\ healthResult = [status |-> "none"]

\* One call of predict on the caller's object.  A caller that calls again passes
\* the same object, as the call left it.
Predict ==
    LET o == PredictCall(callerInput, artifact)
    IN  /\ pstate' = "returned"
        /\ callerInput' = o.caller
        /\ result' = [raised |-> o.raised, exc |-> o.exc, ret |-> o.ret]
        /\ modelFrame' = o.frame
        /\ invoked' = o.invoked
        /\ inference' = o.inference
        /\ UNCHANGED <<request, artifact, healthResult>>
        /\ UNCHANGED <<etlVars, trainVars, dagVars>>

\* HousingPredictor.health
Health ==
    /\ healthResult' = [status |-> "healthy"]
    /\ UNCHANGED <<request, callerInput, artifact, pstate, result, modelFrame, invoked,
                   inference>>
    /\ UNCHANGED <<etlVars, trainVars, dagVars>>

PredictIdle ==
    /\ request = [kind |-> "none", items |-> << >>]
    /\ artifact = NoArtifact
    /\ callerInput = request
    /\ pstate = "returned"
    /\ result = NoResult
    /\ modelFrame = << >>
    /\ invoked = FALSE
    /\ inference = "not_run"
    /\ healthResult = [status |-> "none"]

\* ------------------------------------------------------------------------
\* dags/house_price_training_dag.py
\* ------------------------------------------------------------------------
\* default_args['retries']
Retries == 1

Tasks == <<"run_etl", "validate_data", "train_model", "pipeline_success">>

EdgesFanOut ==
    { <<"run_etl", "validate_data">>, <<"run_etl", "train_model">>,
      <<"train_model", "pipeline_success">> }

\* etl_task >> validate_data_task >> train_task >> success_task
Edges == { <<Tasks[i], Tasks[i + 1]>> : i \in 1..(Len(Tasks) - 1) }

Upstream(t) == {u \in Range(Tasks) : <<u, t>> \in Edges}

\* The scheduler: a task instance may start when every upstream task instance
\* of its DAG run has succeeded (trigger rule all_success), for the first time
\* or after the retry delay
Runnable(r, t) ==
    /\ r \in 1..dagRuns
    /\ ti[r][t] \in {"none", "up_for_retry"}
    /\ \A u \in Upstream(t) : ti[r][u] = "success"

\* the state a task instance takes when its command ends
Ended(r, t, exit0) ==
    IF exit0 THEN "success"
    ELSE IF tries[r][t] <= Retries THEN "up_for_retry" ELSE "failed"

\* the weekly schedule creates the next DAG run
CreateDagRun ==
    /\ dagRuns < MaxDagRuns
    /\ dagRuns' = dagRuns + 1
    /\ UNCHANGED <<ti, tries, trainCsv>>
    /\ UNCHANGED <<predictVars, etlVars, trainVars>>

\* a worker picks the task instance up and starts its bash command
StartTask ==
    /\ \E r \in 1..dagRuns, t \in Range(Tasks) :
         /\ Runnable(r, t)
         /\ ti' = [ti EXCEPT ![r][t] = "running"]
         /\ tries' = [tries EXCEPT ![r][t] = @ + 1]
    /\ UNCHANGED <<dagRuns, trainCsv>>
    /\ UNCHANGED <<predictVars, etlVars, trainVars>>

\* a task instance none of whose attempts can run any more
MarkUpstreamFailed ==
    /\ \E r \in 1..dagRuns, t \in Range(Tasks) :
         /\ ti[r][t] = "none"
         /\ \E u \in Upstream(t) : ti[r][u] \in {"failed", "upstream_failed"}
         /\ ti' = [ti EXCEPT ![r][t] = "upstream_failed"]
    /\ UNCHANGED <<dagRuns, tries, trainCsv>>
    /\ UNCHANGED <<predictVars, etlVars, trainVars>>

\* cd /opt/mlops && python3 scripts/etl_pipeline.py: exit status 0 after the
\* script wrote its files, non-zero when it died before writing
EtlTaskEnds ==
    /\ \E r \in 1..dagRuns, exit0 \in BOOLEAN :
         /\ ti[r]["run_etl"] = "running"
         /\ ti' = [ti EXCEPT ![r]["run_etl"] = Ended(r, "run_etl", exit0)]
         /\ trainCsv' = (trainCsv \/ exit0)
    /\ UNCHANGED <<dagRuns, tries>>
    /\ UNCHANGED <<predictVars, etlVars, trainVars>>

\* if [ ! -f /opt/mlops/data/processed/train.csv ]; then ... exit 1; fi
ValidateTaskEnds ==
    /\ \E r \in 1..dagRuns :
         /\ ti[r]["validate_data"] = "running"
         /\ ti' = [ti EXCEPT ![r]["validate_data"] = Ended(r, "validate_data", trainCsv)]
    /\ UNCHANGED <<dagRuns, tries, trainCsv>>
    /\ UNCHANGED <<predictVars, etlVars, trainVars>>

\* cd /opt/mlops && python3 scripts/train_new_experiment.py: exit status 0 when
\* main returned, non-zero when an exception ended it
TrainTaskEnds ==
    /\ \E r \in 1..dagRuns, exit0 \in BOOLEAN :
         /\ ti[r]["train_model"] = "running"
         /\ ti' = [ti EXCEPT ![r]["train_model"] = Ended(r, "train_model", exit0)]
    /\ UNCHANGED <<dagRuns, tries, trainCsv>>
    /\ UNCHANGED <<predictVars, etlVars, trainVars>>

\* echo "... Pipeline completed! ..."
SuccessTaskEnds ==
    /\ \E r \in 1..dagRuns :
         /\ ti[r]["pipeline_success"] = "running"
         /\ ti' = [ti EXCEPT ![r]["pipeline_success"] = Ended(r, "pipeline_success", TRUE)]
    /\ UNCHANGED <<dagRuns, tries, trainCsv>>
    /\ UNCHANGED <<predictVars, etlVars, trainVars>>

DagIdle ==
    /\ dagRuns = 0
    /\ ti = [r \in 1..MaxDagRuns |-> [t \in Range(Tasks) |-> "none"]]
    /\ tries = [r \in 1..MaxDagRuns |-> [t \in Range(Tasks) |-> 0]]
    /\ trainCsv = FALSE

InitDag ==
    /\ dagRuns = 0
    /\ ti = [r \in 1..MaxDagRuns |-> [t \in Range(Tasks) |-> "none"]]
    /\ tries = [r \in 1..MaxDagRuns |-> [t \in Range(Tasks) |-> 0]]
    /\ trainCsv \in BOOLEAN


\* ------------------------------------------------------------------------
\* Specifications, one per component
\* ------------------------------------------------------------------------
NextPredict == Predict \/ Health

StartPredict == InitPredict /\ EtlIdle /\ TrainIdle /\ DagIdle

SpecPredict == StartPredict /\ [][NextPredict]_vars

NextEtl == RunEtl \/ Tick

StartEtl == PredictIdle /\ InitEtl /\ TrainIdle /\ DagIdle

SpecEtl == StartEtl /\ [][NextEtl]_vars

NextTrain ==
    \/ CreateExperiment
    \/ SetExperiment
    \/ LoadData
    \/ StartRun
    \/ GetArtifactUri
    \/ CheckArtifactUri
    \/ Fit
    \/ LogParam
    \/ LogParams
    \/ LogMetrics
    \/ LogModel
    \/ EndRun
    \/ Finish

NextDag ==
    \/ CreateDagRun
    \/ StartTask
    \/ MarkUpstreamFailed
    \/ EtlTaskEnds
    \/ ValidateTaskEnds
    \/ TrainTaskEnds
    \/ SuccessTaskEnds

StartDag == PredictIdle /\ EtlIdle /\ TrainIdle /\ InitDag

SpecDag == StartDag /\ [][NextDag]_vars

StartTrain == PredictIdle /\ EtlIdle /\ InitTrain /\ DagIdle

SpecTrain == StartTrain /\ [][NextTrain]_vars

\* ------------------------------------------------------------------------
\* Properties
\* ------------------------------------------------------------------------
\* the canonical name of a request key
Canonical(k) ==
    IF k = "FirstFlrSF" THEN "1stFlrSF" ELSE IF k = "SecondFlrSF" THEN "2ndFlrSF" ELSE k

\* the schema names a request mapping lacks once its legacy names are resolved
Absent(x) == Range(EXPECTED_FEATURES) \ {Canonical(k) : k \in Range(Keys(x.items))}

\* C1: a request mapping that lacks schema names after alias resolution gets
\* {status: error, message: "Missing: [...]"} listing exactly the absent names,
\* and the model's inference function is not invoked for it.
C1_MissingReported ==
    (pstate = "returned" /\ IsDict(request) /\ Absent(request) # {}) =>
        /\ ~result.raised
        /\ result.ret = [status |-> "error",
                         message |-> [text |-> "Missing: ", list |-> Absent(request)]]
        /\ ~invoked
        /\ modelFrame = << >>

\* C1 witness: the request lacks GarageCars only, gives a floor area under its
\* legacy name, and was answered with the error listing GarageCars.
C1_Witness ==
    /\ pstate = "returned"
    /\ IsDict(request)
    /\ HasKey(request.items, "FirstFlrSF")
    /\ Absent(request) = {"GarageCars"}
    /\ result.ret.status = "error"
    /\ result.ret.message.list = {"GarageCars"}

\* C2: predict never lets a fault escape: whatever the input and whichever step
\* fails, it returns a dict whose status is success or error; an error dict
\* carries a message; success is returned only when inference completed.
C2_NoFaultEscapes ==
    pstate = "returned" =>
        /\ ~result.raised
        /\ result.ret.status \in {"success", "error"}
        /\ (result.ret.status = "error" =>
                /\ DOMAIN result.ret = {"status", "message"}
                /\ result.ret.message.text # "")
        /\ (result.ret.status = "success" => inference = "completed")
        /\ (inference = "raised" => result.ret.status = "error")
        /\ (~IsDict(request) => result.ret.status = "error")

\* C2 witness: the inference function raised and the caller got an error dict.
C2_Witness ==
    /\ pstate = "returned"
    /\ inference = "raised"
    /\ ~result.raised
    /\ result.ret.status = "error"

\* a request that uses both legacy names instead of the canonical ones
UsesLegacyNames(x) ==
    /\ IsDict(x)
    /\ HasKey(x.items, "FirstFlrSF") /\ HasKey(x.items, "SecondFlrSF")
    /\ ~HasKey(x.items, "1stFlrSF") /\ ~HasKey(x.items, "2ndFlrSF")

\* the same request with the two keys renamed, values and positions unchanged
Renamed(x) ==
    [x EXCEPT !.items = [i \in 1..Len(x.items) |-> <<Canonical(x.items[i][1]), x.items[i][2]>>]]

\* C3: a request using FirstFlrSF and SecondFlrSF gets the result of the same
\* request under the canonical names, the model is handed the same frame, and
\* the caller's mapping is left as it was.
C3_AliasEquivalence ==
    (pstate = "returned" /\ UsesLegacyNames(request)) =>
        LET o == PredictCall(Renamed(request), artifact)
        IN  /\ result = [raised |-> o.raised, exc |-> o.exc, ret |-> o.ret]
            /\ modelFrame = o.frame
            /\ invoked = o.invoked
            /\ callerInput = request

\* C3 witness: a request under the legacy names was answered with a prediction.
C3_Witness ==
    /\ pstate = "returned"
    /\ UsesLegacyNames(request)
    /\ invoked
    /\ result.ret.status = "success"

\* C10: EXPECTED_FEATURES is, name for name and position for position, the
\* list of columns the artifact was fitted on (what run_etl writes, less the
\* target, as load_data returns it), and every frame predict hands to the model
\* has exactly these columns in this order.
C10_SchemaAgreement ==
    /\ artifact.columns = EXPECTED_FEATURES
    /\ (invoked => Keys(modelFrame) = artifact.columns)

\* C10 witness: the model was invoked for a request whose keys were not in
\* schema order and which carried an extra key.
C10_Witness ==
    /\ pstate = "returned"
    /\ invoked
    /\ IsDict(request)
    /\ HasKey(request.items, "Id")
    /\ request.items[1][1] = "Id"
    /\ Keys(modelFrame) = artifact.columns

\* ---- ETL
DerivedColumns == {"HouseAge", "RemodAge", "TotalSF", "TotalBath", "PricePerSqFt"}

OutputCsvs == {processed.train, processed.val, processed.test}

\* C4 as stated: the files hold 25 features plus the target, 26 fields, from
\* 20 selected raw columns.
C4_Original ==
    etlStatus = "ok" =>
        \A f \in OutputCsvs :
            /\ Range(f.cols) = Range(selected_features) \cup {Target} \cup DerivedColumns
            /\ Len(f.cols) = 26
            /\ Cardinality(Range(f.cols) \ {Target}) = 25
            /\ Len(selected_features) = 20

\* C4, amended: the files hold exactly the 21 selected columns, the target and
\* the 5 derived columns (27 fields, 26 features), and no other raw column.
C4_Columns ==
    etlStatus = "ok" =>
        \A f \in OutputCsvs :
            /\ Range(f.cols) = Range(selected_features) \cup {Target} \cup DerivedColumns
            /\ Len(f.cols) = 27
            /\ Cardinality(Range(f.cols)) = 27
            /\ Cardinality(Range(f.cols) \ {Target}) = 26
            /\ Len(selected_features) = 21
            /\ \A c \in Range(rawFile.cols) :
                   c \in Range(f.cols) => c \in Range(selected_features) \cup {Target}
            /\ \A i \in 1..Len(f.rows) : DOMAIN f.rows[i] = Range(f.cols)

\* C4 witness: run_etl succeeded on a raw file that has unselected columns.
C4_Witness ==
    /\ etlStatus = "ok"
    /\ processed.train.exists
    /\ "Id" \in Range(rawFile.cols)
    /\ "LotFrontage" \in Range(rawFile.cols)
    /\ Len(processed.train.rows) > 0

\* C5 as stated: after any number of executions every output file, metadata.json
\* included, is what the first execution wrote, whatever the time.
C5_Original ==
    (etlStatus = "ok" /\ firstOut.metadata.exists) => processed = firstOut

WithoutTimestamp(m) == [m EXCEPT !.timestamp = ""]

\* C5, amended: the three CSV files are overwritten with what the first
\* execution wrote, and so is metadata.json but for its timestamp.
C5_IdempotentButTimestamp ==
    (etlStatus = "ok" /\ firstOut.metadata.exists) =>
        /\ processed.train = firstOut.train
        /\ processed.val = firstOut.val
        /\ processed.test = firstOut.test
        /\ WithoutTimestamp(processed.metadata) = WithoutTimestamp(firstOut.metadata)
        /\ \A f \in OutputCsvs : f # StaleCsv /\ f.exists

\* C5 witness: a second execution, later than the first, has succeeded.
C5_Witness ==
    /\ etlStatus = "ok"
    /\ etlRuns = 2
    /\ processed.metadata.timestamp # firstOut.metadata.timestamp
    /\ processed.train = firstOut.train

\* a raw file run_etl can read and select from
RawUsable ==
    rawFile.exists /\ Range(selected_features) \cup {Target} \subseteq Range(rawFile.cols)

\* the partition the claim describes, for the last execution of run_etl
PartitionAsClaimed ==
    LET N == Len(rawFile.rows)
        nTest == (N + 4) \div 5
        nVal == ((N - nTest) + 3) \div 4
        nTrain == N - nTest - nVal
        tr == Range(lastSplit.train)
        va == Range(lastSplit.val)
        te == Range(lastSplit.test)
    IN  /\ etlStatus = "ok"
        /\ Len(lastSplit.test) = nTest /\ Cardinality(te) = nTest
        /\ Len(lastSplit.val) = nVal /\ Cardinality(va) = nVal
        /\ Len(lastSplit.train) = nTrain /\ Cardinality(tr) = nTrain
        /\ tr \cap va = {} /\ tr \cap te = {} /\ va \cap te = {}
        /\ tr \cup va \cup te = 0..(N - 1)
        /\ Len(processed.train.rows) = nTrain
        /\ Len(processed.val.rows) = nVal
        /\ Len(processed.test.rows) = nTest
        /\ processed.metadata.train_records = nTrain
        /\ processed.metadata.val_records = nVal
        /\ processed.metadata.test_records = nTest
        /\ processed.metadata.total_records = N
        /\ nTrain + nVal + nTest = processed.metadata.total_records

\* C9 as stated: for every number of rows the split yields the partition.
C9_Original ==
    (RawUsable /\ etlRuns > 0) => PartitionAsClaimed

\* C9, amended: for every dataset of at least 3 rows the split yields the
\* partition (N = 1460 gives 292, 292, 876); with fewer rows the split raises
\* and nothing is written.
C9_Partition ==
    /\ (RawUsable /\ etlRuns > 0 /\ Len(rawFile.rows) >= 3) => PartitionAsClaimed
    /\ (RawUsable /\ etlRuns > 0 /\ Len(rawFile.rows) < 3) =>
           etlStatus = "ValueError" /\ ~processed.metadata.exists
    /\ SplitSizes(TestSize, 1460) = [n_test |-> 292, n_train |-> 1168]
    /\ SplitSizes(ValSize, 1168) = [n_test |-> 292, n_train |-> 876]

\* C9 witness: five rows were split 3 / 1 / 1.
C9_Witness ==
    /\ etlStatus = "ok"
    /\ Len(rawFile.rows) = 5
    /\ Len(lastSplit.train) = 3 /\ Len(lastSplit.val) = 1 /\ Len(lastSplit.test) = 1

\* ---- training driver
RunLogged(r) ==
    /\ fitted[r]
    /\ runs[r].status = "FINISHED"
    /\ runs[r].params # {} /\ runs[r].metrics # {} /\ runs[r].artifacts # {}

RunUntouched(r) ==
    ~fitted[r] /\ runs[r].params = {} /\ runs[r].metrics = {} /\ runs[r].artifacts = {}

\* C6 as stated: when the URI check fails in Run A, only Run A is given up and
\* Run B is still started, trained and logged in the same execution.
C6_Original ==
    (BaselineRun \in abortedRuns /\ texit # "running" /\ failures = << >>) =>
        RunUntouched(BaselineRun) /\ RunLogged(AdvancedRun)

\* C6, amended: when the URI check fails in Run A, nothing is fitted or logged
\* for Run A and main returns: Run B is never started, trained or logged.
C6_AbortEndsMain ==
    BaselineRun \in abortedRuns =>
        /\ RunUntouched(BaselineRun)
        /\ RunUntouched(AdvancedRun)
        /\ runs[AdvancedRun].status = "none"
        /\ texit # "running"
        /\ (texit = "exit0" => tpc = Done /\ runs[BaselineRun].status = "FINISHED")

\* C6 witness: the check failed and main returned.
C6_Witness ==
    /\ BaselineRun \in abortedRuns
    /\ texit = "exit0"
    /\ ~StartsWith(artifact_uri, ExpectedScheme)
    /\ loaded # << >>

\* C8: the only registry failure main swallows is "experiment already exists";
\* every other failure of a registry call, create_experiment included, ends the
\* process at that call.
C8_Original ==
    \A i \in 1..Len(failures) :
        failures[i][2] # "already_exists" =>
            /\ ~failures[i][3]
            /\ i = Len(failures)
            /\ texit = "fatal"

\* ---- DAG
ClaimedOrder == <<"run_etl", "validate_data", "train_model", "pipeline_success">>

Started(r, t) == ti[r][t] \in {"running", "success", "up_for_retry", "failed"}

\* C7: in every DAG run a task starts only after its predecessor in
\* run_etl -> validate_data -> train_model -> pipeline_success has succeeded,
\* no two tasks of the run execute at once, pipeline_success succeeds only
\* after the three others did, and no task is attempted more than twice.
C7_LinearOrder ==
    \A r \in 1..MaxDagRuns :
        /\ \A i \in 2..Len(ClaimedOrder) :
               Started(r, ClaimedOrder[i]) => ti[r][ClaimedOrder[i - 1]] = "success"
        /\ Cardinality({t \in Range(ClaimedOrder) : ti[r][t] = "running"}) <= 1
        /\ (ti[r]["pipeline_success"] \in {"running", "success"} =>
               \A i \in 1..3 : ti[r][ClaimedOrder[i]] = "success")
        /\ \A t \in Range(ClaimedOrder) : tries[r][t] <= 2
        /\ \A t \in Range(ClaimedOrder) : ti[r][t] = "failed" => tries[r][t] = 2
        /\ (r > dagRuns => \A t \in Range(ClaimedOrder) : ti[r][t] = "none")

\* C7 witness: a DAG run completed, train_model having needed its retry.
C7_Witness ==
    \E r \in 1..dagRuns :
        /\ ti[r]["pipeline_success"] = "success"
        /\ tries[r]["train_model"] = 2
        /\ tries[r]["run_etl"] = 1

====
